---- MODULE Spec2Model ----
(***************************************************************************)
(* Model of backend/core/conversation.py: the ConversationManager session  *)
(* (message history, token totals, trace handle), the streaming turn        *)
(* generator send_message_streaming, the memory-operation classifier        *)
(* _extract_memory_operations and the session lifecycle operations.         *)
(*                                                                          *)
(* Python strings are modelled as sequences of one-character strings, so    *)
(* that str.replace, str.endswith and the `in` test are computed character  *)
(* by character.  A Python value that may be a string, None, missing, or    *)
(* of another type is a record [k |-> kind, v |-> chars].                   *)
(***************************************************************************)
EXTENDS Integers, Sequences, FiniteSets, TLC

VARIABLES
    messages,                   \* self.messages
    total_input_tokens,         \* self.total_input_tokens
    total_output_tokens,        \* self.total_output_tokens
    total_cache_read_tokens,    \* self.total_cache_read_tokens
    total_cache_write_tokens,   \* self.total_cache_write_tokens
    model,                      \* self.model
    system_prompt,              \* self.system_prompt
    trace,                      \* self.trace: the handle [id, model, system_prompt]
    trace_log,                  \* the facts the current (or last) send gave the trace
    memory_tool,                \* self.memory_tool: [trace |-> id of the trace it is bound to]
    pc,                         \* where the send_message_streaming generator is suspended
    events,                     \* the events the current (or last) send has yielded
    raised,                     \* the last call ended with an exception reaching its caller
    turn,                       \* number of send calls started so far
    clears,                     \* number of traces clear_memories has created
    messages_before_count,      \* local of send_message_streaming
    response,                   \* local of send_message_streaming
    memory_operations,          \* local of send_message_streaming
    op_index,                   \* index of the operation the for loop has yielded
    turn_obs,                   \* observations of the current (or last) send
    fault,                      \* the step of the current (or last) send that raised
    error_turn,                 \* [on, turn]: when on, the last turn of this history
                                \* that ended in an error event (0: none)
    last_call,                  \* observations of the last lifecycle call
    since_clear,                \* [cleared, sends]: sends started since the last clear
    cl_in,                      \* classifier run: the messages argument
    cl_out                      \* classifier run: [done, ops, raised]

totals == <<total_input_tokens, total_output_tokens,
            total_cache_read_tokens, total_cache_write_tokens>>

session_vars == <<messages, totals, model, system_prompt, trace, trace_log, memory_tool, pc,
                  events, raised, turn, clears, messages_before_count, response,
                  memory_operations, op_index, turn_obs, fault, error_turn,
                  last_call, since_clear>>

classifier_vars == <<cl_in, cl_out>>

vars == <<session_vars, classifier_vars>>

----------------------------------------------------------------------------
(* Bounds of the model. *)

\* longest path, in pieces of Pieces, given to the classifier as path / old_path
MaxPieces == 3
\* longest new_path, in pieces, of a rename record given to the classifier
MaxNewPieces == 1
\* number of send calls on one session
MaxTurns == 2
\* number of tool round trips the engine performs during one call
MaxBlocks == 1
\* number of clear_memories calls that reach the trace replacement
MaxClears == 1

----------------------------------------------------------------------------
(* Python values and strings. *)

Str(s) == [k |-> "str", v |-> s]
NoneV == [k |-> "none", v |-> <<>>]
\* a dict key that is not present
Absent == [k |-> "absent", v |-> <<>>]
\* a truthy value that is not a string (a number, a list): no str methods
Other == [k |-> "other", v |-> <<>>]

\* '/memories/'
MemoryRoot == <<"/", "m", "e", "m", "o", "r", "i", "e", "s", "/">>

\* dict.get(key, ''): the default for a missing key
GetOr(val, default) == IF val.k = "absent" THEN default ELSE val

\* Python truthiness of a value: '' and None are falsy
Truthy(val) == CASE val.k = "str" -> val.v # <<>>
                 [] val.k = "other" -> TRUE
                 [] OTHER -> FALSE

StartsWith(s, p) == Len(s) >= Len(p) /\ SubSeq(s, 1, Len(p)) = p

\* s.endswith('/')
EndsWithSep(s) == Len(s) >= 1 /\ s[Len(s)] = "/"

\* '/memories/' in s
ContainsRoot(s) ==
    \E i \in 1..Len(s) : StartsWith(SubSeq(s, i, Len(s)), MemoryRoot)

RECURSIVE ReplaceRoot(_)
\* s.replace('/memories/', ''): every non-overlapping occurrence, left to right
ReplaceRoot(s) ==
    IF Len(s) < Len(MemoryRoot) THEN s
    ELSE IF StartsWith(s, MemoryRoot)
         THEN ReplaceRoot(SubSeq(s, Len(MemoryRoot) + 1, Len(s)))
         ELSE <<Head(s)>> \o ReplaceRoot(Tail(s))

\* the path normalization of the classifier
NormalizePath(s) == ReplaceRoot(s)

----------------------------------------------------------------------------
(* _extract_memory_operations.                                             *)
(* A content block is [type, name, input]; "ABSENT" marks a missing        *)
(* attribute.  input is [dict, command, path, old_path, new_path]: dict is *)
(* FALSE when block.input is no dict (input_data.get raises); command is   *)
(* the value of input_data.get('command'), "NONE" when the key is missing. *)
(* The timestamp field of an operation (datetime.now()) is left out.       *)

\* the outcome of the body of the try block for one record
Emit(ops) == [ops |-> ops, caught |-> FALSE]
\* an exception raised inside the try block: logged, the record is skipped
Caught == [ops |-> <<>>, caught |-> TRUE]

\* line 115 without the endswith test
IsFileViewBug(path) == ContainsRoot(path)

\* line 115: path and not path.endswith('/') and '/memories/' in path
IsFileView(path) == ~EndsWithSep(path) /\ ContainsRoot(path)

\* lines 117-122: the commands that map to one operation type whatever the path
CommandKind(command) ==
    CASE command = "create" -> "create"
      [] command \in {"str_replace", "insert"} -> "update"
      [] command = "delete" -> "delete"
      [] OTHER -> "NONE"

\* lines 136-144: emit the operation unless its cleaned path is empty
EmitClean(operation_type, path) ==
    IF operation_type # "NONE" /\ Truthy(path)
    THEN IF path.k # "str" THEN Caught     \* path.replace: AttributeError
         ELSE LET clean_path == NormalizePath(path.v)
              IN  IF clean_path # <<>>
                  THEN Emit(<<[operation |-> operation_type, path |-> clean_path]>>)
                  ELSE Emit(<<>>)
    ELSE Emit(<<>>)

\* lines 123-134: one rename operation when old_path is truthy
EmitRename(old_path, new_path) ==
    IF Truthy(old_path)
    THEN IF old_path.k # "str" \/ new_path.k # "str" THEN Caught
         ELSE Emit(<<[operation |-> "rename",
                      path |-> NormalizePath(old_path.v),
                      new_path |-> NormalizePath(new_path.v)]>>)
    ELSE Emit(<<>>)

\* lines 107-144: the body of the try block
ClassifyInput(input) ==
    IF ~input.dict THEN Caught
    ELSE LET command == input.command
             path == GetOr(input.path, Str(<<>>))
         IN  CASE command = "view" ->
                    IF ~Truthy(path) THEN Emit(<<>>)
                    ELSE IF path.k # "str" THEN Caught    \* path.endswith
                    ELSE EmitClean(IF IsFileView(path.v) THEN "read" ELSE "NONE", path)
               [] command = "rename" ->
                    EmitRename(GetOr(input.old_path, Str(<<>>)),
                               GetOr(input.new_path, Str(<<>>)))
               [] OTHER -> EmitClean(CommandKind(command), path)

\* lines 105-147: one block; raised is an exception that leaves the function
ClassifyBlock(block) ==
    IF block.type # "tool_use" THEN [ops |-> <<>>, raised |-> FALSE]
    ELSE IF block.name = "ABSENT" THEN [ops |-> <<>>, raised |-> TRUE]
    ELSE IF block.name # "memory" THEN [ops |-> <<>>, raised |-> FALSE]
    ELSE [ops |-> ClassifyInput(block.input).ops, raised |-> FALSE]

RECURSIVE ClassifyBlocks(_)
\* line 103: for block in msg.content
ClassifyBlocks(blocks) ==
    IF blocks = <<>> THEN [ops |-> <<>>, raised |-> FALSE]
    ELSE LET first == ClassifyBlock(Head(blocks))
             rest == ClassifyBlocks(Tail(blocks))
         IN  IF first.raised THEN first
             ELSE [ops |-> first.ops \o rest.ops, raised |-> rest.raised]

RECURSIVE ExtractMemoryOperations(_)
\* lines 97-149: for msg in messages; a message without a content attribute
\* (a plain dict) is skipped
ExtractMemoryOperations(msgs) ==
    IF msgs = <<>> THEN [ops |-> <<>>, raised |-> FALSE]
    ELSE LET first == IF Head(msgs).obj THEN ClassifyBlocks(Head(msgs).blocks)
                      ELSE [ops |-> <<>>, raised |-> FALSE]
             rest == ExtractMemoryOperations(Tail(msgs))
         IN  IF first.raised THEN first
             ELSE [ops |-> first.ops \o rest.ops, raised |-> rest.raised]

----------------------------------------------------------------------------
(* Messages of the history. obj is TRUE for a response object the engine    *)
(* appended (it has a content attribute), FALSE for a plain dict. turn tags  *)
(* the send call during which the entry was appended.                       *)

UserMessage(t) ==
    [obj |-> FALSE, role |-> "user", text |-> "user_message", turn |-> t, blocks |-> <<>>]
AssistantMessage(t, text) ==
    [obj |-> FALSE, role |-> "assistant", text |-> text, turn |-> t, blocks |-> <<>>]
\* an intermediate assistant response holding tool_use blocks
ToolUseMessage(t, blocks) ==
    [obj |-> TRUE, role |-> "assistant", text |-> "", turn |-> t, blocks |-> blocks]
\* the tool results sent back, a plain dict
ToolResultMessage(t) ==
    [obj |-> FALSE, role |-> "user", text |-> "tool_result", turn |-> t, blocks |-> <<>>]

NoInput == [dict |-> FALSE, command |-> "NONE", path |-> Absent,
            old_path |-> Absent, new_path |-> Absent]
PathInput(command, path) ==
    [dict |-> TRUE, command |-> command, path |-> path,
     old_path |-> Absent, new_path |-> Absent]
RenameInput(old_path, new_path) ==
    [dict |-> TRUE, command |-> "rename", path |-> Absent,
     old_path |-> old_path, new_path |-> new_path]
MemoryBlock(input) == [type |-> "tool_use", name |-> "memory", input |-> input]

----------------------------------------------------------------------------
(* Inputs of the classifier runs. *)

Pieces == {MemoryRoot, <<"a">>, <<"/">>, <<"/", "m", "e", "m">>,
           <<"o", "r", "i", "e", "s", "/">>}

RECURSIVE PathsUpTo(_)
PathsUpTo(n) ==
    IF n = 0 THEN {<<>>}
    ELSE LET shorter == PathsUpTo(n - 1)
         IN  shorter \cup {p \o q : p \in shorter, q \in Pieces}

PathValues(n) == {Str(p) : p \in PathsUpTo(n)} \cup {Absent, NoneV, Other}

Commands == {"view", "create", "str_replace", "insert", "delete", "unknown", "NONE"}

ClassifierBlocks ==
    {MemoryBlock(PathInput(c, p)) : c \in Commands, p \in PathValues(MaxPieces)}
    \cup {MemoryBlock(RenameInput(o, n)) :
            o \in PathValues(MaxPieces), n \in PathValues(MaxNewPieces)}
    \cup {MemoryBlock(NoInput),
          [type |-> "ABSENT", name |-> "ABSENT", input |-> NoInput],
          [type |-> "text", name |-> "ABSENT", input |-> NoInput],
          [type |-> "tool_use", name |-> "ABSENT", input |-> NoInput],
          [type |-> "tool_use", name |-> "bash", input |-> NoInput]}

NotRun == [done |-> FALSE, ops |-> <<>>, raised |-> FALSE]

----------------------------------------------------------------------------
(* The collaborators: what the engine, the trace and the store may answer. *)

Models == {"model-a"}
Prompts == {"prompt-a"}

\* a usage counter of the response: missing attribute, None, or a number
NoAttr == [present |-> FALSE, none |-> FALSE, n |-> 0]
NoneTok == [present |-> TRUE, none |-> TRUE, n |-> 0]
Tok(n) == [present |-> TRUE, none |-> FALSE, n |-> n]

\* getattr(usage, name, 0)
GetAttrOr0(val) == IF val.present THEN val ELSE Tok(0)

InputSamples == {Tok(3)}
OutputSamples == {Tok(2)}
CacheSamples == {NoAttr, NoneTok, Tok(1)}

Usages == [input_tokens : InputSamples, output_tokens : OutputSamples,
           cache_read_input_tokens : CacheSamples,
           cache_creation_input_tokens : CacheSamples]

\* a block of response.content: with or without a text attribute
TextBlock(t) == [has_text |-> TRUE, text |-> t]
ToolUseBlock == [has_text |-> FALSE, text |-> ""]

\* response.content: a list of blocks, or a value that cannot be iterated
Contents == {[k |-> "list", v |-> <<ToolUseBlock, TextBlock("Got it."), TextBlock("more")>>],
             [k |-> "none", v |-> <<>>]}

\* the usage field of the unbound response
NoUsage == [input_tokens |-> NoAttr, output_tokens |-> NoAttr,
            cache_read_input_tokens |-> NoAttr,
            cache_creation_input_tokens |-> NoAttr]

\* the final response the engine returns
Responses == [content : Contents, usage : Usages]
NoResponse == [content |-> [k |-> "none", v |-> <<>>], usage |-> NoUsage]

\* runner.until_done() returns the final response or raises
EngineOutcomes ==
    {[raises |-> FALSE, response |-> r] : r \in Responses}
    \cup {[raises |-> TRUE, response |-> NoResponse]}

\* the tool_use blocks the engine's tool loop may produce during a turn
SessionBlocks ==
    {MemoryBlock(PathInput("create", Str(MemoryRoot \o <<"a">>))),
     MemoryBlock(PathInput("view", Str(MemoryRoot))),
     [type |-> "tool_use", name |-> "ABSENT", input |-> NoInput]}

\* the content of one assistant response of the tool loop: one block of
\* SessionBlocks, the create followed by a delete in the same response
SessionBlockLists ==
    {IF b.input.command = "create"
     THEN <<b, MemoryBlock(PathInput("delete", Str(MemoryRoot \o <<"a">>)))>>
     ELSE <<b>> : b \in SessionBlocks}

RECURSIVE EngineAppends(_, _)
\* the entries the engine appends to the history: up to n round trips, each
\* an assistant response with its tool_use blocks and the tool result
EngineAppends(t, n) ==
    IF n = 0 THEN {<<>>}
    ELSE LET shorter == EngineAppends(t, n - 1)
         IN  shorter \cup
             {a \o <<ToolUseMessage(t, bs), ToolResultMessage(t)>> :
                a \in shorter, bs \in SessionBlockLists}

\* the result string of memory_tool.clear_all_memory()
StoreResults == {"All memories cleared", "Nothing to clear"}

NewTrace(id, m, sp) ==
    [id |-> id, model |-> m, system_prompt |-> sp]
\* a call of one of the trace's log_* methods
LogFact(log, kind) == Append(log, kind)

----------------------------------------------------------------------------
(* Events. Every event is [type, op, text, tokens]; the fields an event     *)
(* type does not carry hold NoOp, "" and NoTokens.                          *)

NoOp == [operation |-> "none", path |-> <<>>]
NoTokens == [last_input |-> 0, last_output |-> 0, last_cache_read |-> 0,
             last_cache_write |-> 0, total_input |-> 0, total_output |-> 0,
             total_cache_read |-> 0, total_cache_write |-> 0]

\* lines 171-174 with the type of the text event
ThinkingEventBug == [type |-> "text", op |-> NoOp, text |-> "Processing...",
                     tokens |-> NoTokens]

\* lines 171-174
ThinkingEvent == [type |-> "thinking", op |-> NoOp, text |-> "Processing...",
                  tokens |-> NoTokens]
MemoryOperationEvent(operation) ==
    [type |-> "memory_operation", op |-> operation, text |-> "", tokens |-> NoTokens]
TextEvent(t) == [type |-> "text", op |-> NoOp, text |-> t, tokens |-> NoTokens]
DoneEvent(tokens) == [type |-> "done", op |-> NoOp, text |-> "", tokens |-> tokens]
ErrorEvent == [type |-> "error", op |-> NoOp, text |-> "message", tokens |-> NoTokens]

RECURSIVE FirstText(_)
\* lines 202-206: the text of the first block that has a text attribute
FirstText(blocks) ==
    IF blocks = <<>> THEN ""
    ELSE IF Head(blocks).has_text THEN Head(blocks).text
    ELSE FirstText(Tail(blocks))

----------------------------------------------------------------------------
(* The session: ConversationManager.                                       *)

NoTurn == [turn |-> 0, totals_before |-> <<0, 0, 0, 0>>, engine_called |-> FALSE,
           engine_raised |-> FALSE, engine_messages |-> <<>>]
NoCall == [op |-> "none", text |-> "", id |-> 0, store_result |-> "",
           stats |-> <<0, 0, 0, 0>>]
NoFault == "none"

\* lines 68-83: __init__
InitSession ==
    /\ messages = <<>>
    /\ total_input_tokens = 0
    /\ total_output_tokens = 0
    /\ total_cache_read_tokens = 0
    /\ total_cache_write_tokens = 0
    /\ model \in Models
    /\ system_prompt \in Prompts
    /\ trace = NewTrace(0, model, system_prompt)
    /\ trace_log = <<>>
    /\ memory_tool = [trace |-> 0]
    /\ pc = "idle"
    /\ events = <<>>
    /\ raised = FALSE
    /\ turn = 0
    /\ clears = 0
    /\ messages_before_count = 0
    /\ response = NoResponse
    /\ memory_operations = <<>>
    /\ op_index = 0
    /\ turn_obs = NoTurn
    /\ fault = NoFault
    /\ last_call = NoCall
    /\ since_clear = [cleared |-> FALSE, sends |-> 0]

\* no exception in this run of the generator
NoException ==
    /\ fault' = fault
    /\ error_turn' = error_turn
    /\ raised' = FALSE

\* lines 259-265 without the yield of the error event
ExceptHandlerBug(log, step) ==
    /\ trace_log' = LogFact(log, "error")
    /\ events' = events
    /\ pc' = "idle"
    /\ raised' = FALSE
    /\ fault' = step
    /\ error_turn' = error_turn

\* lines 259-265: the except clause of send_message_streaming, entered by an
\* exception raised at step: the trace records the error fact (log_error
\* returns) and the error event is yielded
ExceptHandler(log, step) ==
    /\ trace_log' = LogFact(log, "error")
    /\ events' = Append(events, ErrorEvent)
    /\ pc' = "error"
    /\ raised' = FALSE
    /\ fault' = step
    /\ error_turn' = [error_turn EXCEPT !.turn = IF error_turn.on THEN turn ELSE 0]

\* lines 201-212: extract the response text and yield the text event
YieldText(resp) ==
    IF resp.content.k # "list"
    THEN ExceptHandler(trace_log, "content")  \* for block in response.content raises
    ELSE /\ events' = Append(events, TextEvent(FirstText(resp.content.v)))
         /\ pc' = "text"
         /\ trace_log' = trace_log
         /\ NoException

\* line 193 without the slice: the whole history is classified
NewMessagesBug(msgs, count) == msgs

\* line 193: self.messages[messages_before_count:]
NewMessages(msgs, count) == SubSeq(msgs, count + 1, Len(msgs))

\* lines 161-174: the call of send and the run of the generator to its first
\* yield. The lines before the try are not covered by the except clause.
SendStart ==
    /\ pc = "idle"
    /\ turn < MaxTurns
    /\ turn' = turn + 1
    /\ messages' = Append(messages, UserMessage(turn + 1))
    /\ \E fail \in {"none", "log_user_input", "log_llm_request"} :
        /\ trace_log' = CASE fail = "log_user_input" -> <<>>
                          [] fail = "log_llm_request" -> <<"user_input">>
                          [] OTHER -> <<"user_input", "llm_request">>
        /\ raised' = (fail # "none")
        /\ fault' = fail
        /\ pc' = IF fail = "none" THEN "thinking" ELSE "idle"
        /\ events' = IF fail = "none" THEN <<ThinkingEvent>> ELSE <<>>
    /\ turn_obs' = [NoTurn EXCEPT !.turn = turn + 1, !.totals_before = totals]
    /\ messages_before_count' = 0
    /\ response' = NoResponse
    /\ memory_operations' = <<>>
    /\ op_index' = 0
    /\ last_call' = NoCall
    /\ since_clear' = [since_clear EXCEPT !.sends = @ + 1]
    /\ UNCHANGED <<totals, model, system_prompt, trace, memory_tool, clears, error_turn,
                   classifier_vars>>

\* lines 176-212: resumed after the thinking event: the engine call, the
\* classification of the entries it appended, and the run to the next yield.
\* A local that is never read again (after the loop, after an exception) is
\* set back to its initial value.
ResumeThinking ==
    /\ pc = "thinking"
    /\ messages_before_count' = Len(messages)
    /\ \E appended \in EngineAppends(turn, MaxBlocks), outcome \in EngineOutcomes :
        LET engine_raises == outcome.raises
            resp == outcome.response
            new_messages == NewMessages(messages \o appended, Len(messages))
            extracted == ExtractMemoryOperations(new_messages)
        IN  /\ messages' = messages \o appended
            /\ turn_obs' = [turn_obs EXCEPT !.engine_called = TRUE,
                                            !.engine_raised = engine_raises,
                                            !.engine_messages = messages]
            /\ IF engine_raises THEN ExceptHandler(trace_log, "engine")
               ELSE IF extracted.raised THEN ExceptHandler(trace_log, "classifier")
               ELSE IF extracted.ops # <<>>
               THEN /\ events' = Append(events, MemoryOperationEvent(extracted.ops[1]))
                    /\ pc' = "memory_operation"
                    /\ trace_log' = trace_log
                    /\ NoException
               ELSE YieldText(resp)
            /\ response' = IF pc' \in {"memory_operation", "text"} THEN resp
                           ELSE NoResponse
            /\ memory_operations' = IF pc' = "memory_operation" THEN extracted.ops
                                    ELSE <<>>
            /\ op_index' = IF pc' = "memory_operation" THEN 1 ELSE 0
    /\ UNCHANGED <<totals, model, system_prompt, trace, memory_tool, turn, clears,
                   last_call, since_clear, classifier_vars>>

\* lines 195-212 with the for loop left after its first operation
ResumeMemoryOperationBug ==
    /\ pc = "memory_operation"
    /\ YieldText(response)
    /\ response' = IF pc' = "text" THEN response ELSE NoResponse
    /\ memory_operations' = <<>>
    /\ op_index' = 0
    /\ UNCHANGED <<messages, totals, model, system_prompt, trace, memory_tool, turn,
                   clears, messages_before_count, turn_obs, last_call, since_clear,
                   classifier_vars>>

\* lines 195-212: resumed after a memory_operation event
ResumeMemoryOperation ==
    /\ pc = "memory_operation"
    /\ IF op_index < Len(memory_operations)
       THEN /\ events' = Append(events,
                   MemoryOperationEvent(memory_operations[op_index + 1]))
            /\ pc' = "memory_operation"
            /\ trace_log' = trace_log
            /\ NoException
       ELSE YieldText(response)
    /\ response' = IF pc' \in {"memory_operation", "text"} THEN response ELSE NoResponse
    /\ memory_operations' = IF pc' = "memory_operation" THEN memory_operations ELSE <<>>
    /\ op_index' = IF pc' = "memory_operation" THEN op_index + 1 ELSE 0
    /\ UNCHANGED <<messages, totals, model, system_prompt, trace, memory_tool, turn,
                   clears, messages_before_count, turn_obs, last_call, since_clear,
                   classifier_vars>>

\* lines 225-228 with = in place of +=
AddTokensBug(total, last) == last

\* lines 225-228: total += last
AddTokens(total, last) == total + last

\* lines 278-281: the value the counters are reset to
ResetTotal == 0

\* line 275 left out: the history is kept
ResetMessagesBug == messages

\* line 275: self.messages = []
ResetMessages == <<>>

\* lines 214-257: resumed after the text event: the assistant message, the
\* token accounting and the done event. An exception between two of the four
\* additions leaves the earlier ones applied.
ResumeText ==
    /\ pc = "text"
    /\ messages' = Append(messages, AssistantMessage(turn, FirstText(response.content.v)))
    /\ \E fail \in {"none", "log_llm_response", "log_token_usage"} :
        LET usage == response.usage
            last_input == usage.input_tokens
            last_output == usage.output_tokens
            last_cache_read == GetAttrOr0(usage.cache_read_input_tokens)
            last_cache_write == GetAttrOr0(usage.cache_creation_input_tokens)
            \* lines 220-221: AttributeError when the attribute is missing
            read_ok == last_input.present /\ last_output.present
            \* lines 225-228: TypeError when the value added is None
            ok1 == read_ok /\ fail # "log_llm_response" /\ ~last_input.none
            ok2 == ok1 /\ ~last_output.none
            ok3 == ok2 /\ ~last_cache_read.none
            ok4 == ok3 /\ ~last_cache_write.none
            new_input == IF ok1 THEN AddTokens(total_input_tokens, last_input.n)
                         ELSE total_input_tokens
            new_output == IF ok2 THEN AddTokens(total_output_tokens, last_output.n)
                          ELSE total_output_tokens
            new_cache_read ==
                IF ok3 THEN AddTokens(total_cache_read_tokens, last_cache_read.n)
                ELSE total_cache_read_tokens
            new_cache_write ==
                IF ok4 THEN AddTokens(total_cache_write_tokens, last_cache_write.n)
                ELSE total_cache_write_tokens
            logged == LogFact(trace_log, "llm_response")
        IN  /\ total_input_tokens' = new_input
            /\ total_output_tokens' = new_output
            /\ total_cache_read_tokens' = new_cache_read
            /\ total_cache_write_tokens' = new_cache_write
            /\ IF fail = "log_llm_response"
               THEN ExceptHandler(trace_log, "log_llm_response")
               ELSE IF ~ok4 THEN ExceptHandler(logged, "usage")
               ELSE IF fail = "log_token_usage"
               THEN ExceptHandler(logged, "log_token_usage")
               ELSE /\ trace_log' = LogFact(logged, "token_usage")
                    /\ events' = Append(events, DoneEvent(
                          [last_input |-> last_input.n,
                           last_output |-> last_output.n,
                           last_cache_read |-> last_cache_read.n,
                           last_cache_write |-> last_cache_write.n,
                           total_input |-> new_input,
                           total_output |-> new_output,
                           total_cache_read |-> new_cache_read,
                           total_cache_write |-> new_cache_write]))
                    /\ pc' = "done"
                    /\ NoException
    /\ response' = IF pc' = "done" THEN response ELSE NoResponse
    /\ UNCHANGED <<model, system_prompt, trace, memory_tool, turn, clears,
                   messages_before_count, memory_operations, op_index,
                   turn_obs, last_call, since_clear, classifier_vars>>

\* lines 257 and 265: resumed after the done or the error event, the
\* generator returns
ResumeTerminal ==
    /\ pc \in {"done", "error"}
    /\ pc' = "idle"
    /\ response' = NoResponse
    /\ UNCHANGED <<messages, totals, model, system_prompt, trace, trace_log, memory_tool,
                   events, raised, turn, clears, messages_before_count,
                   memory_operations, op_index, turn_obs, fault, error_turn, last_call,
                   since_clear, classifier_vars>>

\* a lifecycle call ends the observation of the last send
ForgetSend ==
    /\ events' = <<>>
    /\ trace_log' = <<>>
    /\ turn_obs' = NoTurn
    /\ fault' = NoFault

\* what the collaborators answer during clear_memories: clear_all_memory
\* raises, or it returns a result and trace.finalize() raises or returns
ClearOutcomes ==
    {[fail |-> "clear_all_memory", result |-> ""]}
    \cup [fail : {"finalize", "none"}, result : StoreResults]

\* lines 272-288: the body of clear_memories
ClearBody ==
    \E outcome \in ClearOutcomes :
        LET fail == outcome.fail
            result == outcome.result
        IN  /\ raised' = (fail # "none")
            /\ IF fail = "clear_all_memory"
               THEN /\ UNCHANGED <<messages, totals, trace, memory_tool, clears,
                                   since_clear, error_turn>>
                    /\ last_call' = [NoCall EXCEPT !.op = "clear_memories"]
               ELSE /\ messages' = ResetMessages
                    /\ total_input_tokens' = ResetTotal
                    /\ total_output_tokens' = ResetTotal
                    /\ total_cache_read_tokens' = ResetTotal
                    /\ total_cache_write_tokens' = ResetTotal
                    /\ error_turn' = [error_turn EXCEPT !.turn = 0]
                    /\ IF fail = "finalize"
                       THEN /\ UNCHANGED <<trace, memory_tool, clears, since_clear>>
                            /\ last_call' = [NoCall EXCEPT !.op = "clear_memories",
                                                           !.store_result = result]
                       ELSE /\ trace' = NewTrace(clears + 1, model, system_prompt)
                            /\ memory_tool' = [trace |-> clears + 1]
                            /\ clears' = clears + 1
                            /\ since_clear' = [cleared |-> TRUE, sends |-> 0]
                            /\ last_call' = [NoCall EXCEPT !.op = "clear_memories",
                                                           !.store_result = result,
                                                           !.text = result]

\* lines 272-288: clear_memories, called while no send is in progress
ClearMemories ==
    /\ pc = "idle"
    /\ clears < MaxClears
    /\ ClearBody
    /\ ForgetSend
    /\ UNCHANGED <<model, system_prompt, pc, turn, messages_before_count, response,
                   memory_operations, op_index, classifier_vars>>

\* lines 272-288: clear_memories, called by another step of the caller while
\* a send is suspended at thinking, at a memory_operation or at text. The
\* locals of the suspended generator are untouched.
ClearMemoriesSuspended ==
    /\ pc \in {"thinking", "memory_operation", "text"}
    /\ clears < MaxClears
    /\ ClearBody
    /\ UNCHANGED <<model, system_prompt, pc, turn, messages_before_count, response,
                   memory_operations, op_index, events, trace_log, turn_obs, fault,
                   classifier_vars>>

\* lines 290-292 with the history reset of clear_memories added
FinalizeBug ==
    /\ pc = "idle"
    /\ raised' = FALSE
    /\ last_call' = [NoCall EXCEPT !.op = "finalize", !.text = "trace file",
                                   !.id = trace.id]
    /\ ForgetSend
    /\ messages' = ResetMessages
    /\ UNCHANGED <<totals, model, system_prompt, trace, memory_tool, pc, turn,
                   clears, messages_before_count, response, memory_operations, op_index,
                   error_turn, since_clear, classifier_vars>>

\* lines 290-292: finalize. Finalizing is the trace collaborator's work; the
\* session keeps the same handle and returns the path the trace gives.
Finalize ==
    /\ pc = "idle"
    /\ raised' = FALSE
    /\ last_call' = [NoCall EXCEPT !.op = "finalize", !.text = "trace file",
                                   !.id = trace.id]
    /\ ForgetSend
    /\ UNCHANGED <<messages, totals, model, system_prompt, trace, memory_tool, pc, turn,
                   clears, messages_before_count, response, memory_operations, op_index,
                   error_turn, since_clear, classifier_vars>>

\* lines 294-301: get_token_stats
GetTokenStats ==
    /\ pc = "idle"
    /\ raised' = FALSE
    /\ last_call' = [NoCall EXCEPT !.op = "get_token_stats", !.stats = totals]
    /\ ForgetSend
    /\ UNCHANGED <<messages, totals, model, system_prompt, trace, memory_tool, pc, turn,
                   clears, messages_before_count, response, memory_operations, op_index,
                   error_turn, since_clear, classifier_vars>>

Init ==
    /\ InitSession
    /\ error_turn = [on |-> FALSE, turn |-> 0]
    /\ cl_in = <<>>
    /\ cl_out = NotRun

Next ==
    \/ SendStart
    \/ ResumeThinking
    \/ ResumeMemoryOperation
    \/ ResumeText
    \/ ResumeTerminal
    \/ ClearMemories
    \/ Finalize
    \/ GetTokenStats

\* one session used by a caller that calls one operation at a time
Spec == Init /\ [][Next]_vars

InitObserved ==
    /\ InitSession
    /\ error_turn = [on |-> TRUE, turn |-> 0]
    /\ cl_in = <<>>
    /\ cl_out = NotRun

\* the same session, with error_turn recorded
SpecObserved == InitObserved /\ [][Next]_vars

NextInterleaved ==
    \/ Next
    \/ ClearMemoriesSuspended

\* one session whose caller may call clear_memories while a send is suspended
SpecInterleaved == Init /\ [][NextInterleaved]_vars

----------------------------------------------------------------------------
(* Runs of the classifier on one record. *)

InitClassifier ==
    /\ InitSession
    /\ error_turn = [on |-> FALSE, turn |-> 0]
    /\ cl_in \in {<<ToolUseMessage(1, <<b>>)>> : b \in ClassifierBlocks}
    /\ cl_out = NotRun

\* lines 87-149: one call of _extract_memory_operations
Classify ==
    /\ ~cl_out.done
    /\ cl_out' = [done |-> TRUE,
                  ops |-> ExtractMemoryOperations(cl_in).ops,
                  raised |-> ExtractMemoryOperations(cl_in).raised]
    /\ UNCHANGED <<cl_in, session_vars>>

NextClassifier == Classify

SpecClassifier == InitClassifier /\ [][NextClassifier]_vars

----------------------------------------------------------------------------
(* Properties of the event stream of a send (specifications Spec and       *)
(* SpecObserved).                                                           *)

Range(s) == {s[i] : i \in 1..Len(s)}

Types(evs) == [i \in 1..Len(evs) |-> evs[i].type]

\* ts is thinking (memory_operation)* followed by tail
ThinkingThenOperations(ts, tail) ==
    /\ Len(ts) >= 1 + Len(tail)
    /\ ts[1] = "thinking"
    /\ \A i \in 2..(Len(ts) - Len(tail)) : ts[i] = "memory_operation"
    /\ SubSeq(ts, Len(ts) - Len(tail) + 1, Len(ts)) = tail

\* ts matches thinking (memory_operation)* (text done | error)
GrammarComplete(ts) ==
    \/ ThinkingThenOperations(ts, <<"text", "done">>)
    \/ ThinkingThenOperations(ts, <<"error">>)

\* ts is the beginning of a sequence that matches the grammar
GrammarPrefix(ts) ==
    \/ ts = <<>>
    \/ ThinkingThenOperations(ts, <<>>)
    \/ ThinkingThenOperations(ts, <<"text">>)
    \/ GrammarComplete(ts)

\* C1: the events of every send match thinking (memory_operation)*
\* (text done | error): at any moment the events yielded so far begin such a
\* sequence, and once the send has ended (the generator returned or raised)
\* they are one complete such sequence.
EventGrammar ==
    turn_obs.turn > 0 =>
        /\ GrammarPrefix(Types(events))
        /\ pc = "idle" => GrammarComplete(Types(events))

\* C2: an exception raised at any step of a turn is caught at the turn
\* boundary: it does not reach the caller of send, the trace has recorded an
\* error fact and the event sequence ends with an error event.
ExceptionsCaught ==
    fault # "none" =>
        /\ ~raised
        /\ trace_log # <<>> /\ trace_log[Len(trace_log)] = "error"
        /\ events # <<>> /\ events[Len(events)].type = "error"

ErrorTurnKeepsSessionUsable ==
    /\ pc = "error" => UserMessage(turn) \in Range(messages)
    /\ (error_turn.turn > 0 /\ turn_obs.turn > error_turn.turn) =>
          /\ UserMessage(error_turn.turn) \in Range(messages)
          /\ pc = "idle" => GrammarComplete(Types(events))
          /\ turn_obs.engine_called =>
                UserMessage(error_turn.turn) \in Range(turn_obs.engine_messages)

----------------------------------------------------------------------------
(* Properties of the token totals and of clear_memories (Spec).            *)

\* the four last_* values of a response's usage
LastTokens(usage) ==
    <<usage.input_tokens.n, usage.output_tokens.n,
      GetAttrOr0(usage.cache_read_input_tokens).n,
      GetAttrOr0(usage.cache_creation_input_tokens).n>>

\* C5: when a turn has emitted done, each of the four totals is its value
\* before the turn plus the turn's last_* value, the done event carries those
\* last_* values and the resulting totals; after clear_memories has returned
\* all four totals are 0.
TokenTotals ==
    /\ pc = "done" =>
          LET tokens == events[Len(events)].tokens
              last == LastTokens(response.usage)
              before == turn_obs.totals_before
          IN  /\ events[Len(events)].type = "done"
              /\ <<tokens.last_input, tokens.last_output,
                   tokens.last_cache_read, tokens.last_cache_write>> = last
              /\ totals = <<before[1] + last[1], before[2] + last[2],
                            before[3] + last[3], before[4] + last[4]>>
              /\ <<tokens.total_input, tokens.total_output,
                   tokens.total_cache_read, tokens.total_cache_write>> = totals
    /\ (last_call.op = "clear_memories" /\ ~raised) => totals = <<0, 0, 0, 0>>

\* a second turn has emitted done, with a cache-read count, on totals that
\* the first turn left above 0
TokenTotalsWitness ==
    /\ pc = "done"
    /\ turn_obs.turn = 2
    /\ turn_obs.totals_before[1] > 0
    /\ total_cache_read_tokens > turn_obs.totals_before[3]

\* what holds once clear_memories has returned
Cleared ==
    /\ (last_call.op = "clear_memories" /\ ~raised) =>
          /\ last_call.text \in StoreResults
          /\ last_call.text = last_call.store_result
          /\ messages = <<>>
    /\ (last_call.op = "get_token_stats" /\ since_clear.cleared /\ since_clear.sends = 0) =>
          last_call.stats = <<0, 0, 0, 0>>
    /\ (since_clear.cleared /\ since_clear.sends = 1 /\ turn_obs.engine_called) =>
          turn_obs.engine_messages = <<UserMessage(turn_obs.turn)>>

\* C6: after clear_memories has returned it has returned the store's
\* clear-result, the history is empty, get_token_stats returns four zeros,
\* the next send passes the engine a history holding only its own user
\* message, and the call leaves model and system prompt as they were.
ClearMemoriesResets ==
    /\ []Cleared
    /\ [][last_call'.op = "clear_memories" =>
            (model' = model /\ system_prompt' = system_prompt)]_vars

\* a send that follows a turn and a clear_memories has called the engine
ClearMemoriesWitness ==
    /\ since_clear.cleared
    /\ since_clear.sends = 1
    /\ turn_obs.turn = 2
    /\ turn_obs.engine_called

----------------------------------------------------------------------------
(* Properties of the classifier (SpecClassifier).                          *)

\* the record given to the classifier run, and its input dict
ClRecord == cl_in[1].blocks[1]
ClInput == ClRecord.input

\* the run is over and its record is a memory tool record with an input dict
ClassifiedMemoryRecord ==
    /\ cl_out.done
    /\ ClRecord.type = "tool_use"
    /\ ClRecord.name = "memory"
    /\ ClInput.dict

\* p without one leading '/memories/'
StripRootPrefix(p) ==
    IF StartsWith(p, MemoryRoot) THEN SubSeq(p, Len(MemoryRoot) + 1, Len(p)) ELSE p

\* C7: a record with command create, str_replace, insert or delete yields
\* one operation (create, update, update, delete) carrying the record's path
\* with the memory-root prefix stripped; a record with any other command, or
\* a view of a directory listing, yields no operation. (Records whose
\* stripped path is empty are left aside: their operation is suppressed.)
CommandMapping ==
    (/\ ClassifiedMemoryRecord
     /\ ClInput.command # "rename"
     /\ ClInput.path.k = "str"
     /\ StripRootPrefix(ClInput.path.v) # <<>>) =>
        LET c == ClInput.command
            p == ClInput.path.v
            One(kind) == cl_out.ops = <<[operation |-> kind, path |-> StripRootPrefix(p)]>>
        IN  /\ ~cl_out.raised
            /\ c = "create" => One("create")
            /\ c \in {"str_replace", "insert"} => One("update")
            /\ c = "delete" => One("delete")
            /\ c \in {"unknown", "NONE"} => cl_out.ops = <<>>
            /\ (c = "view" /\ EndsWithSep(p)) => cl_out.ops = <<>>

\* C8: a view record whose path ends in the separator yields no operation;
\* a view record whose path starts with the memory root and does not end in
\* the separator yields exactly one operation, a read.
ViewClassification ==
    (ClassifiedMemoryRecord /\ ClInput.command = "view" /\ ClInput.path.k = "str") =>
        LET p == ClInput.path.v
        IN  /\ EndsWithSep(p) => cl_out.ops = <<>>
            /\ (StartsWith(p, MemoryRoot) /\ ~EndsWithSep(p)) =>
                  (Len(cl_out.ops) = 1 /\ cl_out.ops[1].operation = "read")

\* the view of a file under the root, whose path holds the root text a
\* second time, has been classified as one read
ViewClassificationWitness ==
    /\ ClassifiedMemoryRecord
    /\ ClInput.command = "view"
    /\ ClInput.path = Str(MemoryRoot \o MemoryRoot \o <<"a">>)
    /\ Len(cl_out.ops) = 1
    /\ cl_out.ops[1].operation = "read"

\* C9: a rename record (old_path a non-empty string, new_path a string)
\* yields exactly one operation, a rename carrying the old path and the new
\* path, each with the memory-root prefix stripped.
RenameOneOperation ==
    (/\ ClassifiedMemoryRecord
     /\ ClInput.command = "rename"
     /\ ClInput.old_path.k = "str" /\ ClInput.old_path.v # <<>>
     /\ ClInput.new_path.k = "str") =>
        cl_out.ops = <<[operation |-> "rename",
                        path |-> StripRootPrefix(ClInput.old_path.v),
                        new_path |-> StripRootPrefix(ClInput.new_path.v)]>>

\* C10: the path an operation carries is the record's path without one
\* leading '/memories/' and with every later occurrence kept, and normalizing
\* the carried path again returns it unchanged.
NormalizationStripsOnePrefix ==
    (/\ ClassifiedMemoryRecord
     /\ ClInput.command = "create"
     /\ ClInput.path.k = "str") =>
        LET p == ClInput.path.v
        IN  /\ (StartsWith(p, MemoryRoot) /\ StripRootPrefix(p) # <<>>) =>
                  (Len(cl_out.ops) = 1 /\ cl_out.ops[1].path = StripRootPrefix(p))
            /\ \A i \in 1..Len(cl_out.ops) :
                  NormalizePath(cl_out.ops[i].path) = cl_out.ops[i].path

\* C11: every operation the classifier emits, rename included, carries a
\* non-empty path relative to the memory root (it does not start with
\* '/memories/'), and a record whose path (old_path for a rename) is empty
\* once the root prefix is stripped yields no operation.
OperationPathsRelative ==
    cl_out.done =>
        /\ \A i \in 1..Len(cl_out.ops) :
              /\ cl_out.ops[i].path # <<>>
              /\ ~StartsWith(cl_out.ops[i].path, MemoryRoot)
        /\ (/\ ClassifiedMemoryRecord
            /\ LET p == IF ClInput.command = "rename" THEN ClInput.old_path
                        ELSE ClInput.path
               IN  p.k = "str" /\ StripRootPrefix(p.v) = <<>>) =>
              cl_out.ops = <<>>

----------------------------------------------------------------------------
(* Properties of the lifecycle operations and of the turn's steps (Spec).   *)

\* C12: finalize returns the path of the current trace and leaves the
\* history, the four totals, the model, the system prompt, the memory-store
\* handle and the trace handle as they were, also when it follows another
\* finalize.
FinalizeFrame ==
    [][last_call'.op = "finalize" =>
          /\ last_call'.text = "trace file"
          /\ last_call'.id = trace.id
          /\ UNCHANGED <<messages, totals, model, system_prompt, memory_tool, trace>>]_vars

\* finalize has returned on a session that holds a history and token totals
FinalizeWitness ==
    /\ last_call.op = "finalize"
    /\ ~raised
    /\ Len(messages) >= 2
    /\ total_input_tokens > 0

IsPrefix(a, b) == Len(a) <= Len(b) /\ SubSeq(b, 1, Len(a)) = a

\* the operations of the memory_operation events the send has yielded
EmittedOps ==
    LET ms == SelectSeq(events, LAMBDA e : e.type = "memory_operation")
    IN  [i \in 1..Len(ms) |-> ms[i].op]

\* the entries of the history appended during the current (or last) send
OwnEntries == SelectSeq(messages, LAMBDA m : m.turn = turn_obs.turn)

\* C13: the memory_operation events of a send come, each at most once and
\* in order, from the tool invocations appended to the history during that
\* send; an invocation appended during an earlier turn is not emitted again.
AtMostOnceDelivery ==
    turn_obs.turn > 0 =>
        IsPrefix(EmittedOps, ExtractMemoryOperations(OwnEntries).ops)

\* a second turn, during which the engine appended nothing, has reached its
\* text event without a memory_operation event, while the history holds a
\* memory invocation of the first turn
AtMostOnceWitness ==
    /\ turn_obs.turn = 2
    /\ pc = "text"
    /\ EmittedOps = <<>>
    /\ \E i \in 1..Len(messages) :
          /\ messages[i].turn = 1
          /\ ExtractMemoryOperations(<<messages[i]>>).ops # <<>>

\* C14: a send yields one memory_operation event per operation the
\* classifier returned for the entries appended during the engine call, in
\* their order, after the engine call has returned and before the text event.
OperationsInDetectionOrder ==
    /\ EmittedOps # <<>> => (turn_obs.engine_called /\ ~turn_obs.engine_raised)
    /\ \A k \in 1..Len(events) :
          events[k].type = "text" =>
              /\ Types(SubSeq(events, 2, k - 1)) = [i \in 1..(k - 2) |-> "memory_operation"]
              /\ EmittedOps = ExtractMemoryOperations(OwnEntries).ops
              /\ Len(EmittedOps) = k - 2

\* a send has yielded a create and then a delete, detected in that order in
\* one appended response, and then its text event
OperationsInOrderWitness ==
    /\ pc = "text"
    /\ Len(EmittedOps) = 2
    /\ EmittedOps[1].operation = "create"
    /\ EmittedOps[2].operation = "delete"
    /\ events[Len(events)].type = "text"

\* C15: the thinking event is yielded to the caller before the engine is
\* invoked: while the generator is suspended at thinking the engine has not
\* been called, the engine is called only in the step that resumes the
\* generator from there, and a send that called the engine has thinking as
\* its first event.
ThinkingBeforeEngine ==
    /\ pc = "thinking" => (~turn_obs.engine_called /\ Types(events) = <<"thinking">>)
    /\ turn_obs.engine_called => (events # <<>> /\ events[1].type = "thinking")

\* the generator is suspended at thinking in a second turn, the engine not
\* yet called
ThinkingBeforeEngineWitness ==
    /\ pc = "thinking"
    /\ turn_obs.turn = 2
    /\ ~turn_obs.engine_called
    /\ events = <<ThinkingEvent>>

RECURSIVE IsolatedBlockOps(_)
\* the operations of a list of records when a record whose inspection fails
\* is skipped and the others are classified
IsolatedBlockOps(blocks) ==
    IF blocks = <<>> THEN <<>>
    ELSE (IF ClassifyBlock(Head(blocks)).raised THEN <<>>
          ELSE ClassifyBlock(Head(blocks)).ops) \o IsolatedBlockOps(Tail(blocks))

RECURSIVE IsolatedOps(_)
IsolatedOps(msgs) ==
    IF msgs = <<>> THEN <<>>
    ELSE (IF Head(msgs).obj THEN IsolatedBlockOps(Head(msgs).blocks) ELSE <<>>)
         \o IsolatedOps(Tail(msgs))

\* C16: a failure while inspecting one malformed record (a record without
\* its tool name included) is caught and only that record is skipped: no
\* turn ends in an error event because of the classifier, and a turn whose
\* engine call returned reaches its text event after the operations of all
\* the other records.
RecordFailureIsolated ==
    /\ fault # "classifier"
    /\ pc \in {"text", "done"} => EmittedOps = IsolatedOps(OwnEntries)

\* a usage counter that is absent or has no value
MissingCount(c) == ~c.present \/ c.none

\* C17: when the usage of the response has no cache-read (cache-write)
\* count, absent or None, the turn resumed after its text event completes
\* with done, the done event reports last_cache_read (last_cache_write) 0 and
\* the matching total is unchanged. (Steps in which a trace call of the turn
\* raises are left aside.)
MissingCacheDefaultsToZero ==
    [][(pc = "text" /\ pc' # "text" /\
        fault' \notin {"log_llm_response", "log_token_usage"}) =>
          LET usage == response.usage
              done == events'[Len(events')]
          IN  /\ MissingCount(usage.cache_read_input_tokens) =>
                    /\ pc' = "done"
                    /\ done.type = "done"
                    /\ done.tokens.last_cache_read = 0
                    /\ total_cache_read_tokens' = total_cache_read_tokens
              /\ MissingCount(usage.cache_creation_input_tokens) =>
                    /\ pc' = "done"
                    /\ done.type = "done"
                    /\ done.tokens.last_cache_write = 0
                    /\ total_cache_write_tokens' = total_cache_write_tokens]_vars

\* C19: whenever a send has ended, each total is its value before the turn
\* plus the last_* value of the done event the turn emitted, and a turn that
\* emitted no done event (it ended in an error event or raised) leaves the
\* four totals as they were before the turn.
TotalsCountDoneEventsOnly ==
    (turn_obs.turn > 0 /\ pc \in {"idle", "done", "error"}) =>
        LET before == turn_obs.totals_before
            last == IF events # <<>> /\ events[Len(events)].type = "done"
                    THEN events[Len(events)].tokens
                    ELSE NoTokens
        IN  totals = <<before[1] + last.last_input, before[2] + last.last_output,
                       before[3] + last.last_cache_read,
                       before[4] + last.last_cache_write>>

\* C18: a send hands control back to its caller at the thinking event and
\* again while the engine call is outstanding: when the generator resumed
\* from thinking next hands control back, the engine call has not yet
\* returned, so that steps of the caller run between its start and its return.
EngineCallSuspends ==
    [][(pc = "thinking" /\ pc' # "thinking") => ~turn_obs'.engine_called]_vars

----------------------------------------------------------------------------
(* clear_memories interleaved with a suspended send (SpecInterleaved).      *)

\* C20: a clear_memories that runs while a send is suspended is not undone
\* or corrupted by the resumed send: the engine is invoked with a history
\* that holds the turn's user message, every assistant entry the driver
\* appended is preceded in the history by the user entry of its turn, and
\* once a send that started before the clear has ended the totals are 0 (they
\* count only turns started after the clear).
ClearNotCorruptedBySend ==
    /\ turn_obs.engine_called =>
          UserMessage(turn_obs.turn) \in Range(turn_obs.engine_messages)
    /\ \A i \in 1..Len(messages) :
          (messages[i].role = "assistant" /\ ~messages[i].obj) =>
              \E j \in 1..(i - 1) : messages[j] = UserMessage(messages[i].turn)
    /\ (/\ since_clear.cleared
        /\ since_clear.sends = 0
        /\ turn_obs.turn > 0
        /\ pc \in {"done", "error", "idle"}) =>
          totals = <<0, 0, 0, 0>>

====
